---- MODULE Spec2Model ----
(***************************************************************************)
(* Model of lmstudio_benchmark/main.py: the LMStudioBenchmark runner.      *)
(*                                                                         *)
(* Time is counted in clock ticks and memory in MB, both as integers.  A   *)
(* float quotient is kept as a reduced fraction [num, den].  The server,   *)
(* the clock and the memory probe are the environment: every value they    *)
(* return is chosen nondeterministically from a small set.  The clock is   *)
(* taken not to step backwards between the two samples of one call.        *)
(***************************************************************************)
EXTENDS Integers, Sequences, FiniteSets, TLC

VARIABLES
    pc,          \* position of the caller: "run", "trials", "collect", "report", "done"
    prompts,     \* argument of run_benchmark
    iterations,  \* argument of run_benchmark
    pidx,        \* index of the prompt the outer loop is at
    iter,        \* iterations of the inner loop already done for that prompt
    results,     \* self.results
    result,      \* the local `result` of run_benchmark: the last return value
    call,        \* what the environment supplied to the last measure_inference
    events,      \* the statements the last measure_inference executed, in order
    executed,    \* the trials executed by the current run_benchmark call
    posts,       \* number of POST /chat/completions requests issued so far
    probe,       \* what GET /models did in the current run_benchmark
    io,          \* visible effects (prints, file writes) in order
    file,        \* content of benchmark_results.csv, left by an earlier process
    runs         \* number of run_benchmark calls made on this object

vars == <<pc, prompts, iterations, pidx, iter, results, result, call, events,
          executed, posts, probe, io, file, runs>>

----------------------------------------------------------------------------
(* Bounds of the model *)

MaxTrials == 4

MaxPrompts == 3

MaxClock == 2

MaxRuns == 2

----------------------------------------------------------------------------
(* Values of the environment *)

\* A prompt of n characters.
Prompt(n) == [j \in 1..n |-> "x"]

\* The prompt lists tried: k prompts of increasing length, as in main().
PromptList(k) == [i \in 1..k |-> Prompt(i)]

\* Arguments of run_benchmark that plan at most `budget` trials.
Arguments(budget) ==
    { a \in [prompts : {PromptList(k) : k \in 1..MaxPrompts}, iterations : 1..MaxTrials] :
        Len(a.prompts) * a.iterations <= budget }

\* Readings of time.time().
ClockTicks == 0..MaxClock

\* Readings of the resident set size, in MB; with one reading the memory
\* delta of every Measurement is 0.
RssSamples == {7}

\* Values of usage.total_tokens.
TokenCounts == {0, 3}

\* Statuses the server answers the probe with: 204 is a 2xx that is not 200.
ProbeStatuses == {200, 204, 500}

\* Statuses the server answers a completion request with: 304 is neither a
\* 2xx nor an error status.
PostStatuses == {200, 304, 500}

\* The usage member of a response: absent, an object without total_tokens,
\* null, or an object with a count.
NoUsage == [kind |-> "absent"]

NoTotal == [kind |-> "no_total_tokens"]

NullUsage == [kind |-> "null"]

Usage(n) == [kind |-> "total_tokens", total_tokens |-> n]

GeneratedText == <<"o", "k">>

\* Response bodies: not JSON at all, JSON without choices[0].message.content,
\* or a completion whose usage object is absent, lacks total_tokens, is null,
\* or carries a count.
Bodies ==
    { [json |-> FALSE], [json |-> TRUE, choices |-> FALSE] }
    \cup { [json |-> TRUE, choices |-> TRUE, content |-> GeneratedText, usage |-> u] :
             u \in {NoUsage, NoTotal, NullUsage} \cup {Usage(n) : n \in TokenCounts} }

\* The completion a healthy server sends.
GoodBody ==
    [json |-> TRUE, choices |-> TRUE, content |-> GeneratedText, usage |-> Usage(3)]

\* What requests.post does: raises a transport error or returns a response.
\* Status 200 comes with every body, the other statuses with a completion or
\* with a body that is not JSON.
Transports ==
    { [raised |-> TRUE] }
    \cup { [raised |-> FALSE, status |-> 200, body |-> b] : b \in Bodies }
    \cup { [raised |-> FALSE, status |-> s, body |-> b] :
             s \in PostStatuses \ {200}, b \in {GoodBody, [json |-> FALSE]} }

\* What the environment supplies to one measure_inference call.  The end
\* samples exist only if the code reaches lines 38-39.
Environments ==
    { env \in [start_time : ClockTicks, start_memory : RssSamples, post : Transports,
               end_time : ClockTicks, end_memory : RssSamples] :
        env.end_time >= env.start_time }

\* What requests.get on /models does.
Probes == { [raised |-> TRUE] } \cup { [raised |-> FALSE, status |-> s] : s \in ProbeStatuses }

----------------------------------------------------------------------------
(* Pure helpers *)

RECURSIVE Gcd(_, _)
Gcd(a, b) == IF b = 0 THEN a ELSE Gcd(b, a % b)

\* A variant of Quotient that divides as // does.
QuotientFloor(n, d) == [num |-> n \div d, den |-> 1]

\* The float n / d for d > 0, as a fraction in lowest terms.
Quotient(n, d) == LET g == Gcd(n, d) IN [num |-> n \div g, den |-> d \div g]

\* A variant of Divide that yields infinity instead of raising.
DivideUnguarded(n, d) ==
    [raised |-> FALSE, value |-> IF d = 0 THEN [num |-> 1, den |-> 0] ELSE Quotient(n, d)]

\* total_tokens / (end_time - start_time): Python raises ZeroDivisionError
\* when the divisor is 0.0, whatever the dividend.
Divide(n, d) ==
    IF d = 0 THEN [raised |-> TRUE] ELSE [raised |-> FALSE, value |-> Quotient(n, d)]

RECURSIVE CountOf(_, _)
CountOf(x, s) ==
    IF s = <<>> THEN 0
    ELSE (IF Head(s) = x THEN 1 ELSE 0) + CountOf(x, Tail(s))

\* Position of the first x in s, 0 if there is none.
RECURSIVE IndexOf(_, _)
IndexOf(x, s) ==
    IF s = <<>> THEN 0
    ELSE IF Head(s) = x THEN 1
    ELSE LET r == IndexOf(x, Tail(s)) IN IF r = 0 THEN 0 ELSE r + 1

----------------------------------------------------------------------------
(* LMStudioBenchmark.check_connection *)

\* A variant of check_connection that accepts every 2xx status.
check_connection_2xx(response) ==
    IF response.raised THEN FALSE ELSE response.status >= 200 /\ response.status < 300

\* True iff the probe returned and its status is exactly 200; a transport
\* error (requests.RequestException) gives False.
check_connection(response) ==
    IF response.raised THEN FALSE ELSE response.status = 200

----------------------------------------------------------------------------
(* LMStudioBenchmark.measure_inference *)

\* response.raise_for_status(): raises HTTPError for a 4xx or 5xx status and
\* for no other status.
raise_for_status(status) == status >= 400 /\ status < 600

\* The dictionary of the except branch.
Failure(prompt, e) ==
    [prompt_length |-> Len(prompt), error |-> e, success |-> FALSE]

\* The dictionary of the try branch.
Success(prompt, generated_text, total_tokens, start_time, end_time, tokens_per_second, start_memory, end_memory) ==
    [prompt_length |-> Len(prompt),
     response_length |-> Len(generated_text),
     total_tokens |-> total_tokens,
     latency |-> end_time - start_time,
     tokens_per_second |-> tokens_per_second,
     memory_usage_mb |-> end_memory - start_memory,
     success |-> TRUE]

\* result.get('usage', {}).get('total_tokens', 0)
TotalTokens(usage) == IF usage \in {NoUsage, NoTotal} THEN 0 ELSE usage.total_tokens

\* A variant of Send that repeats the request.
SendTwice == <<"start_time", "start_memory", "post", "post">>

\* The two start samples and the one requests.post call.
Send == <<"start_time", "start_memory", "post">>

\* A variant of ThroughJson that takes the end samples after response.json().
ThroughJsonParsedFirst == Send \o <<"raise_for_status", "json", "end_time", "end_memory">>

\* The statements of the try block up to and including response.json().
ThroughJson == Send \o <<"raise_for_status", "end_time", "end_memory", "json">>

\* One call: the Measurement returned and the statements executed, in order.
measure_inference(prompt, env) ==
    IF env.post.raised
    THEN [m |-> Failure(prompt, "ConnectionError"),
          events |-> Send \o <<"except">>]
    ELSE IF raise_for_status(env.post.status)
    THEN [m |-> Failure(prompt, "HTTPError"),
          events |-> Send \o <<"raise_for_status", "except">>]
    ELSE IF ~env.post.body.json
    THEN [m |-> Failure(prompt, "JSONDecodeError"),
          events |-> ThroughJson \o <<"except">>]
    ELSE IF ~env.post.body.choices
    THEN [m |-> Failure(prompt, "KeyError"),
          events |-> ThroughJson \o <<"content", "except">>]
    ELSE IF env.post.body.usage = NullUsage
    THEN [m |-> Failure(prompt, "AttributeError"),
          events |-> ThroughJson \o <<"content", "total_tokens", "except">>]
    ELSE LET total_tokens == TotalTokens(env.post.body.usage)
             tokens_per_second == Divide(total_tokens, env.end_time - env.start_time)
         IN
         IF tokens_per_second.raised
         THEN [m |-> Failure(prompt, "ZeroDivisionError"),
               events |-> ThroughJson \o <<"content", "total_tokens", "divide", "except">>]
         ELSE [m |-> Success(prompt, env.post.body.content, total_tokens,
                             env.start_time, env.end_time, tokens_per_second.value,
                             env.start_memory, env.end_memory),
               events |-> ThroughJson \o <<"content", "total_tokens", "divide", "return">>]

\* The part of the environment the call consumed: the end samples are taken
\* only if lines 38-39 ran, the body is read only if line 41 ran.
Observed(env, evs) ==
    IF CountOf("end_time", evs) > 0 THEN env
    ELSE [start_time |-> env.start_time, start_memory |-> env.start_memory,
          post |-> IF env.post.raised THEN env.post
                   ELSE [raised |-> FALSE, status |-> env.post.status]]

----------------------------------------------------------------------------
(* The output file *)

Columns ==
    <<"prompt_length", "response_length", "total_tokens", "latency",
      "tokens_per_second", "memory_usage_mb", "success">>

\* One row of the DataFrame: the values of a Measurement in column order.
CsvRow(m) == [c \in 1..Len(Columns) |-> m[Columns[c]]]

\* df.to_csv(output_file, index=False): header and one row per record.
ToCsv(rs) ==
    [exists |-> TRUE, header |-> Columns, rows |-> [k \in 1..Len(rs) |-> CsvRow(rs[k])]]

\* What an earlier process left at the output path: the file of its run.
StaleFile == ToCsv(<<Success(Prompt(1), GeneratedText, 3, 0, 1, Quotient(3, 1), 7, 7)>>)

NoResult == [returned |-> FALSE]

NoCall == [called |-> FALSE]

NoProbe == [probed |-> FALSE]

----------------------------------------------------------------------------
(* LMStudioBenchmark.run_benchmark and generate_report *)

\* A variant of Keep that appends every result.
KeepAll(rs, m) == Append(rs, m)

\* Lines 72-73: only a successful result is appended to self.results.
Keep(rs, m) == IF m.success THEN Append(rs, m) ELSE rs

\* A variant of NextPosition with the loops nested the other way round.
NextPositionIterationMajor(p, i, ps, n) ==
    IF p < Len(ps) THEN [pc |-> "trials", pidx |-> p + 1, iter |-> i]
    ELSE IF i + 1 < n THEN [pc |-> "trials", pidx |-> 1, iter |-> i + 1]
    ELSE [pc |-> "report", pidx |-> p, iter |-> i]

\* The two for-loops: after one more pass of the body at prompt p with i
\* passes done before it, where the loops stand next.
NextPosition(p, i, ps, n) ==
    IF i + 1 < n THEN [pc |-> "trials", pidx |-> p, iter |-> i + 1]
    ELSE IF p < Len(ps) THEN [pc |-> "trials", pidx |-> p + 1, iter |-> 0]
    ELSE [pc |-> "report", pidx |-> p, iter |-> i]

\* What the trial log keeps of one executed trial.
Trial(p, m) ==
    IF m.success THEN [prompt |-> p, success |-> TRUE, m |-> m]
    ELSE [prompt |-> p, success |-> FALSE]

\* A variant of generate_report that opens the file for appending.
generate_report_append(rs, f) ==
    IF rs = <<>>
    THEN [file |-> f, out |-> <<"print_no_results">>]
    ELSE [file |-> [exists |-> TRUE, header |-> Columns, rows |-> f.rows \o ToCsv(rs).rows],
          out |-> <<"write_csv", "print_summary">>]

\* generate_report on self.results = rs with f at the output path: the file
\* afterwards and what was done, in order.
generate_report(rs, f) ==
    IF rs = <<>>
    THEN [file |-> f, out |-> <<"print_no_results">>]
    ELSE [file |-> ToCsv(rs), out |-> <<"write_csv", "print_summary">>]

----------------------------------------------------------------------------
(* State machine *)

Init ==
    /\ pc = "run"
    /\ prompts = <<>>
    /\ iterations = 0
    /\ pidx = 0
    /\ iter = 0
    /\ results = <<>>
    /\ result = NoResult
    /\ call = NoCall
    /\ events = <<>>
    /\ executed = <<>>
    /\ posts = 0
    /\ probe = NoProbe
    /\ io = <<>>
    /\ file = StaleFile
    /\ runs = 0

\* run_benchmark up to the loops: the connectivity gate.
RunBenchmark ==
    /\ pc = "run"
    /\ \E a \in Arguments(MaxTrials - Len(results)), p \in Probes :
        /\ prompts' = a.prompts
        /\ iterations' = a.iterations
        /\ probe' = p
        /\ IF ~check_connection(p)
           THEN /\ io' = Append(io, "print_cannot_connect")
                /\ pc' = "report"
                /\ pidx' = 0
           ELSE /\ io' = Append(io, "print_running")
                /\ pc' = "trials"
                /\ pidx' = 1
    /\ iter' = 0
    /\ executed' = <<>>
    /\ runs' = runs + 1
    /\ UNCHANGED <<results, result, call, events, posts, file>>

\* Line 71: the loop body calls measure_inference for the current prompt.
Measure ==
    /\ pc = "trials"
    /\ \E env \in Environments :
        LET r == measure_inference(prompts[pidx], env) IN
        /\ result' = r.m
        /\ events' = r.events
        /\ call' = Observed(env, r.events)
        /\ posts' = posts + CountOf("post", r.events)
    /\ pc' = "collect"
    /\ UNCHANGED <<prompts, iterations, pidx, iter, results, executed, probe, io, file, runs>>

\* Lines 72-73 and the loop headers: keep a successful result, go on to the
\* next iteration, the next prompt, or the end of run_benchmark.
Collect ==
    /\ pc = "collect"
    /\ results' = Keep(results, result)
    /\ executed' = Append(executed, Trial(pidx, result))
    /\ LET next == NextPosition(pidx, iter, prompts, iterations) IN
        /\ pc' = next.pc
        /\ pidx' = next.pidx
        /\ iter' = next.iter
    /\ result' = NoResult
    /\ call' = NoCall
    /\ events' = <<>>
    /\ UNCHANGED <<prompts, iterations, posts, probe, io, file, runs>>

GenerateReport ==
    /\ pc = "report"
    /\ LET r == generate_report(results, file) IN
        /\ file' = r.file
        /\ io' = io \o r.out
    /\ pc' = "done"
    /\ UNCHANGED <<prompts, iterations, pidx, iter, results, result, call, events,
                   executed, posts, probe, runs>>

\* The caller uses the same object for another run_benchmark call.
Reuse ==
    /\ pc = "done"
    /\ runs < MaxRuns
    /\ Len(results) < MaxTrials
    /\ pc' = "run"
    /\ UNCHANGED <<prompts, iterations, pidx, iter, results, result, call, events,
                   executed, posts, probe, io, file, runs>>

\* main(): one object, one run_benchmark, one generate_report.
Next == RunBenchmark \/ Measure \/ Collect \/ GenerateReport

Spec == Init /\ [][Next]_vars

\* The same object driven through several run_benchmark / generate_report calls.
NextReuse == Next \/ Reuse

SpecReuse == Init /\ [][NextReuse]_vars

----------------------------------------------------------------------------
(* Vocabulary of the properties *)

Probed == "raised" \in DOMAIN probe

GatePassed == Probed /\ ~probe.raised /\ probe.status = 200

GateFailed == Probed /\ (probe.raised \/ probe.status # 200)

\* run_benchmark has returned.
RunOver == Probed /\ pc \in {"report", "done"}

Planned == Len(prompts) * iterations

IsSuccess(t) == t.success

\* The Measurements of the successful trials of the current run, in order.
Produced ==
    LET ok == SelectSeq(executed, IsSuccess) IN [k \in 1..Len(ok) |-> ok[k].m]

Returned == pc = "collect"

Has(e) == CountOf(e, events) > 0

\* Measurements in existence: those of the set and the one just returned.
Successful ==
    {results[k] : k \in 1..Len(results)}
    \cup (IF Returned /\ result.success THEN {result} ELSE {})

\* The count the server reported, 0 when it reported none.
Reported(usage) == IF usage.kind = "total_tokens" THEN usage.total_tokens ELSE 0

\* The last call got a response whose body the code read.
BodyRead == Returned /\ "end_time" \in DOMAIN call

\* The last call got a completion that parses, with a usable usage member.
WellFormed ==
    /\ BodyRead
    /\ call.post.body.json
    /\ call.post.body.choices
    /\ call.post.body.usage # NullUsage

\* The last call hit one of the failures C5 lists.
TrialFailure ==
    /\ Returned
    /\ \/ call.post.raised
       \/ call.post.status < 200
       \/ call.post.status >= 300
       \/ ~call.post.body.json
       \/ ~call.post.body.choices

FailureFields == {"prompt_length", "error", "success"}

----------------------------------------------------------------------------
(* C1 *)

\* C1: when the probe on /models raises or returns a status other than 200,
\* run_benchmark is over at once, no completion request has been issued, no
\* trial has run and the Measurement Set is empty.
C1_GateClosed ==
    GateFailed =>
        /\ pc \in {"report", "done"}
        /\ posts = 0
        /\ executed = <<>>
        /\ results = <<>>

C1_Witness == pc = "done" /\ Probed /\ ~probe.raised /\ probe.status = 204 /\ posts = 0

(* C2 *)

\* C2: after a run whose gate passed and whose trials all succeeded, the set
\* holds exactly M * N Measurements and the k-th (0-based) belongs to prompt
\* k div N.
C2_PromptMajor ==
    (RunOver /\ GatePassed /\ \A j \in 1..Len(executed) : executed[j].success) =>
        /\ Len(results) = Planned
        /\ \A j \in 1..Len(results) :
            /\ executed[j].prompt = ((j - 1) \div iterations) + 1
            /\ results[j].prompt_length = Len(prompts[((j - 1) \div iterations) + 1])

C2_Witness ==
    /\ pc = "done"
    /\ Len(prompts) = 2
    /\ iterations = 2
    /\ Len(results) = 4
    /\ results[2].prompt_length = 1
    /\ results[3].prompt_length = 2

(* C3 *)

\* C3: the set never holds a failed record, and after a run whose gate passed
\* all M * N planned trials have been executed and the set is exactly the
\* successful ones in execution order.
C3_FailuresSkipped ==
    /\ \A k \in 1..Len(results) : results[k].success
    /\ (RunOver /\ GatePassed) =>
        /\ Len(executed) = Planned
        /\ results = Produced

C3_Witness ==
    /\ pc = "done"
    /\ Len(executed) = Planned
    /\ \E i, j \in 1..Len(executed) : i < j /\ ~executed[i].success /\ executed[j].success

(* C4 *)

\* C4: every measure_inference call issues exactly one POST, failed or not,
\* so the number of requests equals the number of trials and is M * N after a
\* run whose gate passed.
C4_OnePostPerCall ==
    /\ Returned => CountOf("post", events) = 1
    /\ posts = Len(executed) + (IF Returned THEN 1 ELSE 0)
    /\ (RunOver /\ GatePassed) => posts = Planned

C4_Witness ==
    /\ pc = "done"
    /\ GatePassed
    /\ posts = Planned
    /\ posts >= 2
    /\ \A j \in 1..Len(executed) : ~executed[j].success

(* C5 *)

\* C5: on a transport failure, a non-2xx status or a parsing failure the
\* Measurement returned has success = false, prompt_length and error and no
\* numeric field; prompt_length is the prompt's character count in every
\* Measurement.
C5_FailureRecord ==
    Returned =>
        /\ result.prompt_length = Len(prompts[pidx])
        /\ TrialFailure => (~result.success /\ DOMAIN result = FailureFields)

(* C6 *)

\* C6: a zero latency on an otherwise well-formed response makes the call
\* fail with the division error; no successful Measurement has latency 0 or
\* an undefined tokens_per_second.
C6_ZeroLatencyFails ==
    /\ \A m \in Successful : m.latency # 0 /\ m.tokens_per_second.den # 0
    /\ (WellFormed /\ call.end_time = call.start_time) =>
        (~result.success /\ result.error = "ZeroDivisionError")

C6_Witness ==
    /\ WellFormed
    /\ call.post.status = 200
    /\ call.end_time = call.start_time
    /\ ~result.success
    /\ result.error = "ZeroDivisionError"

(* C7 *)

\* C7: every successful Measurement has tokens_per_second = total_tokens /
\* latency, with latency = end - start and total_tokens the reported count or
\* 0 when usage or usage.total_tokens is absent; then tokens_per_second is 0.
C7_Throughput ==
    /\ \A m \in Successful :
        /\ m.tokens_per_second.den > 0
        /\ m.tokens_per_second.num * m.latency = m.total_tokens * m.tokens_per_second.den
        /\ m.total_tokens = 0 => m.tokens_per_second.num = 0
    /\ (Returned /\ result.success) =>
        /\ result.latency = call.end_time - call.start_time
        /\ result.total_tokens = Reported(call.post.body.usage)

C7_Witness ==
    /\ Returned
    /\ result.success
    /\ result.total_tokens = 3
    /\ result.latency = 2
    /\ result.tokens_per_second = [num |-> 3, den |-> 2]
    /\ \E k \in 1..Len(results) : results[k].total_tokens = 0

(* C8 *)

\* C8: generate_report on an empty set writes nothing and prints only the
\* 'no results' message; on a non-empty set the file is replaced by one row
\* per Measurement in set order and the summary is printed after the write.
C8_Report ==
    pc = "done" =>
        IF results = <<>>
        THEN /\ CountOf("write_csv", io) = 0
             /\ CountOf("print_summary", io) = 0
             /\ io[Len(io)] = "print_no_results"
             /\ file = StaleFile
        ELSE /\ file.exists
             /\ file.header = Columns
             /\ Len(file.rows) = Len(results)
             /\ \A k \in 1..Len(results) : file.rows[k] = CsvRow(results[k])
             /\ CountOf("print_no_results", io) = 0
             /\ SubSeq(io, Len(io) - 1, Len(io)) = <<"write_csv", "print_summary">>

C8_Witness ==
    /\ pc = "done"
    /\ GatePassed
    /\ Len(executed) >= 2
    /\ results = <<>>
    /\ file = StaleFile

(* C9 *)

\* C9 as stated: the end clock and end memory are sampled only after the
\* response has been JSON-decoded and the text extracted.
C9_EndAfterParse ==
    (Returned /\ Has("end_time")) =>
        /\ Has("json")
        /\ IndexOf("json", events) < IndexOf("end_time", events)
        /\ IndexOf("json", events) < IndexOf("end_memory", events)

\* C9 as amended: a call samples the start clock and memory, then sends the
\* request; once the response is received and its status checked it samples
\* the end clock and memory, and only after that decodes the JSON and
\* extracts the text, so the latency does not cover the parsing.
C9_EndBeforeParse ==
    Returned =>
        /\ IndexOf("start_time", events) = 1
        /\ IndexOf("start_memory", events) = 2
        /\ IndexOf("post", events) = 3
        /\ Has("end_time") =>
            /\ IndexOf("raise_for_status", events) = 4
            /\ IndexOf("end_time", events) = 5
            /\ IndexOf("end_memory", events) = 6
        /\ Has("json") =>
            /\ Has("end_time")
            /\ IndexOf("end_memory", events) < IndexOf("json", events)
        /\ Has("content") =>
            /\ Has("json")
            /\ IndexOf("json", events) < IndexOf("content", events)
        /\ result.success => result.latency = call.end_time - call.start_time

C9_Witness ==
    /\ Returned
    /\ Has("end_time")
    /\ Has("json")
    /\ ~result.success
    /\ result.error = "JSONDecodeError"

(* C10 *)

\* C10: the set a report sees holds only the Measurements of the most recent
\* run_benchmark, and is empty when that run's gate aborted.
C10_FreshSet ==
    RunOver =>
        /\ results = Produced
        /\ GateFailed => results = <<>>

====
